---- MODULE Spec2Model ----
(***************************************************************************)
(* libixp_rubythread: the thread backend of libixp for programs embedded   *)
(* in the Ruby 1.8 interpreter (src/lib/libixp_rubythread/thread_ruby.c).  *)
(*                                                                         *)
(* The RWLock is the Ruby class the backend evaluates at start-up (the     *)
(* RWLock[] string, lines 212-293).  Its methods run under the semantics   *)
(* of Ruby 1.8:                                                            *)
(*   - an instance variable that was never assigned reads as nil;          *)
(*   - sending a message an object has no method for raises NoMethodError; *)
(*   - a bare `raise` raises RuntimeError;                                 *)
(*   - between `Thread.critical = true` and the restoring of the flag (or  *)
(*     Thread.stop, which clears it) no other thread runs, so each such    *)
(*     region is one atomic step; outside such a region the interpreter    *)
(*     may switch threads;                                                 *)
(*   - Thread.stop suspends the caller until some thread sends it wakeup.  *)
(***************************************************************************)
EXTENDS Integers, Sequences, FiniteSets, TLC

\* Bounds of the model
NThreads == 2      \* scheduling units (Ruby threads)
MaxQueue == 2      \* cap on the length of @rdqueue and of @wrqueue
MaxHeld == 2       \* cap on the length of @rdheld
NMutexThreads == 3 \* scheduling units that use the Mutex
NErrThreads == 3   \* scheduling units that ask for their error buffer
NAddrs == 3        \* addresses the allocator can give a string
NIoThreads == 2    \* scheduling units that read and write the descriptor
PipeCap == 2       \* bytes the pipe holds before it stops being writable
MaxSize == 2       \* largest size a read or write is called with
MaxBytes == 3      \* bytes written to the pipe in one run
MaxDestroys == 2   \* times rwdestroy is called on the handle

Threads == 1..NThreads
MThreads == 1..NMutexThreads
EThreads == 1..NErrThreads
Addrs == 1..NAddrs
IThreads == 1..NIoThreads
Nil == 0           \* Ruby's nil, where a thread or nil is expected

VARIABLES
    rdqueue,    \* @rdqueue: array of threads
    wrqueue,    \* @wrqueue: array of threads
    wrheld,     \* @wrheld: a thread or nil
    rdheld,     \* @rdheld: array of threads
    pc,         \* per thread: where it is inside the RWLock methods
    stopped,    \* per thread: suspended in Thread.stop and not yet woken
    call,       \* per thread: the backend operation it called last
    result,     \* per thread: what that call returned or raised
    entry,      \* per thread: @wrheld and @rdheld as they were at that call
    slept,      \* per thread: whether that call executed Thread.stop
    locked,     \* Mutex @locked
    waiting,    \* Mutex @waiting: array of threads
    mholds,     \* the threads that have acquired the Mutex and not released it
    mpc,        \* per thread: where it is inside the Mutex methods
    mstopped,   \* per thread: suspended in Mutex#lock and not yet woken
    mcall,      \* per thread: the Mutex operation it called last
    mresult,    \* per thread: what that call returned or raised
    mslept,     \* per thread: whether that call executed Thread.stop
    waiters,    \* ConditionVariable @waiters: array of threads
    pending,    \* per thread: the waiters its broadcast has still to run
    tls,        \* per thread: its thread-local _ixp_errbuf (a string's address or nil)
    heap,       \* the addresses of the strings that are allocated
    alive,      \* per thread: whether the thread is live
    got,        \* per thread: the pointer errbuf returned last (nil: never called)
    first,      \* per thread: the pointer its first errbuf call returned
    calls,      \* per thread: how many times it has called errbuf (0, 1, 2 for more)
    pipe,       \* the bytes in the pipe the descriptor refers to
    wclosed,    \* whether the write end of the pipe has been closed
    blocked,    \* the thread whose syscall blocks the whole process, or nil
    ipc,        \* per thread: where it is in _read or _write
    icall,      \* per thread: the call it made last
    isize,      \* per thread: the size argument
    inotready,  \* per thread: whether the descriptor was not ready at the call
    sysn,       \* per thread: what the syscall returned (n)
    ierrno,     \* per thread: errno after the syscall
    ires,       \* per thread: what the call returned to the host
    nsys,       \* per thread: syscalls issued by the call
    nyield,     \* per thread: rb_thread_schedule calls made after the syscall
    written,    \* all bytes the pipe accepted, in order
    readseq,    \* all bytes read from the pipe, in order
    aux,        \* what has become of the object rw->aux points to
    crashed,    \* whether the process has died
    destroys    \* how many times rwdestroy has been called

rwvars == <<rdqueue, wrqueue, wrheld, rdheld, pc, stopped, call, result, entry, slept>>

mvars == <<locked, waiting, mholds, mpc, mstopped, mcall, mresult, mslept>>

rvars == <<waiters, pending>>

evars == <<tls, heap, alive, got, first, calls>>

ivars == <<pipe, wclosed, blocked, ipc, icall, isize, inotready, sysn,
           ierrno, ires, nsys, nyield, written, readseq>>

dvars == <<aux, crashed, destroys>>

vars == <<rwvars, mvars, rvars, evars, ivars, dvars>>

\* What the operations of one primitive leave alone
notrw == <<mvars, rvars, evars, ivars, dvars>>
notmutex == <<rwvars, rvars, evars, ivars, dvars>>
notsync == <<rwvars, evars, ivars, dvars>>
noterrbuf == <<rwvars, mvars, rvars, ivars, dvars>>
notio == <<rwvars, mvars, rvars, evars, dvars>>
notdestroy == <<mvars, rvars, evars, ivars>>

----------------------------------------------------------------------------
\* Ruby helpers

\* Array#include?
include(a, x) == \E i \in 1..Len(a) : a[i] = x

\* Array#push
push(a, x) == Append(a, x)

\* The messages the script sends, and the ones Ruby 1.8 defines for the
\* receiver's class.  Array has neither remove! nor empty (it has delete and
\* empty?); nil has no empty?.
Methods(class) ==
    CASE class = "Array"    -> {"push", "shift", "each", "empty?", "include?", "delete"}
      [] class = "NilClass" -> {"nil?", "==", "to_a", "to_s", "inspect"}
      [] class = "Thread"   -> {"wakeup", "run", "==", "alive?"}
      [] class = "Mutex"    -> {"lock", "try_lock", "locked?", "unlock",
                                "synchronize", "exclusive_unlock"}

responds(class, m) == m \in Methods(class)

\* @rwheld (lines 223, 279) and @rwqueue (line 284) are never assigned by any
\* method of the class, so they read as nil.
rwheld == Nil
rwqueue_class == "NilClass"

Errors == {"RuntimeError", "NoMethodError"}

----------------------------------------------------------------------------
Init ==
    /\ rdqueue = <<>>
    /\ wrqueue = <<>>
    /\ wrheld = Nil
    /\ rdheld = <<>>
    /\ pc = [t \in Threads |-> "idle"]
    /\ stopped = [t \in Threads |-> FALSE]
    /\ call = [t \in Threads |-> "none"]
    /\ result = [t \in Threads |-> "none"]
    /\ entry = [t \in Threads |-> [wr |-> Nil, rd |-> <<>>]]
    /\ slept = [t \in Threads |-> FALSE]
    /\ locked = FALSE
    /\ waiting = <<>>
    /\ mholds = {}
    /\ mpc = [t \in MThreads |-> "idle"]
    /\ mstopped = [t \in MThreads |-> FALSE]
    /\ mcall = [t \in MThreads |-> "none"]
    /\ mresult = [t \in MThreads |-> "none"]
    /\ mslept = [t \in MThreads |-> FALSE]
    /\ waiters = <<>>
    /\ pending = [t \in MThreads |-> <<>>]
    /\ tls = [t \in EThreads |-> Nil]
    /\ heap = {}
    /\ alive = [t \in EThreads |-> TRUE]
    /\ got = [t \in EThreads |-> Nil]
    /\ first = [t \in EThreads |-> Nil]
    /\ calls = [t \in EThreads |-> 0]
    /\ pipe = <<>>
    /\ wclosed = FALSE
    /\ blocked = Nil
    /\ ipc = [t \in IThreads |-> "idle"]
    /\ icall = [t \in IThreads |-> "none"]
    /\ isize = [t \in IThreads |-> 0]
    /\ inotready = [t \in IThreads |-> FALSE]
    /\ sysn = [t \in IThreads |-> 0]
    /\ ierrno = [t \in IThreads |-> "none"]
    /\ ires = [t \in IThreads |-> 0]
    /\ nsys = [t \in IThreads |-> 0]
    /\ nyield = [t \in IThreads |-> 0]
    /\ written = <<>>
    /\ readseq = <<>>
    /\ aux = "registered"
    /\ crashed = FALSE
    /\ destroys = 0

\* What a call records when it starts
begin(t, c) ==
    /\ pc[t] = "idle"
    /\ call' = [call EXCEPT ![t] = c]
    /\ entry' = [entry EXCEPT ![t] = [wr |-> wrheld, rd |-> rdheld]]
    /\ UNCHANGED notrw

\* rdlock that also waits while other readers hold the lock
rdlock_wait_exclusive(t) == (wrheld # Nil \/ rdheld # <<>>) /\ rwheld # t

\* The loop condition of rdlock (line 223)
rdlock_wait(t) == wrheld # Nil /\ rwheld # t

\* One pass of rdlock from the head of its loop (lines 223-232): either the
\* caller queues itself and stops, or it becomes a reader and wakes @rdqueue.
\* c is the operation the thread called, sl whether it has stopped before.
rdlock_loop(t, c, sl) ==
    IF rdlock_wait(t)
    THEN /\ Len(rdqueue) < MaxQueue
         /\ rdqueue' = push(rdqueue, t)
         /\ stopped' = [stopped EXCEPT ![t] = TRUE]
         /\ slept' = [slept EXCEPT ![t] = TRUE]
         /\ pc' = [pc EXCEPT ![t] = "rdlock_stop"]
         /\ result' = [result EXCEPT ![t] = "none"]
         /\ UNCHANGED <<wrqueue, wrheld, rdheld>>
    ELSE /\ Len(rdheld) < MaxHeld
         /\ wrheld' = Nil
         /\ rdheld' = push(rdheld, t)
         /\ stopped' = [u \in Threads |-> stopped[u] /\ ~include(rdqueue, u)]
         /\ slept' = [slept EXCEPT ![t] = sl]
         /\ pc' = [pc EXCEPT ![t] = "idle"]
         /\ result' = [result EXCEPT ![t] = IF c = "tryrdlock" THEN "true" ELSE "self"]
         /\ UNCHANGED <<rdqueue, wrqueue>>

\* RWLock#rdlock, called through rlock (lines 104-107, 221-233)
rdlock(t) ==
    /\ begin(t, "rdlock")
    /\ rdlock_loop(t, "rdlock", FALSE)

\* A thread woken out of rdlock's Thread.stop evaluates the loop again
rdlock_resume(t) ==
    /\ pc[t] = "rdlock_stop"
    /\ ~stopped[t]
    /\ rdlock_loop(t, call[t], TRUE)
    /\ UNCHANGED <<call, entry, notrw>>

\* wrlock that does not look at the readers
wrlock_wait_noreaders(t) == wrheld # t /\ wrheld # Nil

\* wrlock that does not let the write holder in again
wrlock_wait_noreentry(t) == rdheld # <<>> \/ wrheld # Nil

\* The loop condition of wrlock (line 238)
wrlock_wait(t) == rdheld # <<>> \/ (wrheld # t /\ wrheld # Nil)

\* One pass of wrlock from the head of its loop (lines 237-244)
wrlock_loop(t, c, sl) ==
    IF wrlock_wait(t)
    THEN /\ Len(wrqueue) < MaxQueue
         /\ wrqueue' = push(wrqueue, t)
         /\ stopped' = [stopped EXCEPT ![t] = TRUE]
         /\ slept' = [slept EXCEPT ![t] = TRUE]
         /\ pc' = [pc EXCEPT ![t] = "wrlock_stop"]
         /\ result' = [result EXCEPT ![t] = "none"]
         /\ UNCHANGED <<rdqueue, wrheld, rdheld>>
    ELSE /\ wrheld' = t
         /\ slept' = [slept EXCEPT ![t] = sl]
         /\ pc' = [pc EXCEPT ![t] = "idle"]
         /\ result' = [result EXCEPT ![t] = IF c = "trywrlock" THEN "true" ELSE "self"]
         /\ UNCHANGED <<rdqueue, wrqueue, rdheld, stopped>>

\* RWLock#wrlock, called through wlock (lines 114-117, 235-245)
wrlock(t) ==
    /\ begin(t, "wrlock")
    /\ wrlock_loop(t, "wrlock", FALSE)

\* A thread woken out of wrlock's Thread.stop evaluates the loop again
wrlock_resume(t) ==
    /\ pc[t] = "wrlock_stop"
    /\ ~stopped[t]
    /\ wrlock_loop(t, call[t], TRUE)
    /\ UNCHANGED <<call, entry, notrw>>

\* The test of tryrdlock (line 250) and of trywrlock (line 262)
tryrdlock_test == wrheld = Nil
trywrlock_test == wrheld = Nil /\ rdheld = <<>>

\* The test of a try method, made outside any critical region: on success
\* the thread goes on to call the blocking method, otherwise it returns false.
try_test(t, ok, then) ==
    /\ slept' = [slept EXCEPT ![t] = FALSE]
    /\ pc' = [pc EXCEPT ![t] = IF ok THEN then ELSE "idle"]
    /\ result' = [result EXCEPT ![t] = IF ok THEN "none" ELSE "false"]
    /\ UNCHANGED <<rdqueue, wrqueue, wrheld, rdheld, stopped>>

\* RWLock#tryrdlock, called through canrlock (lines 109-112, 248-258)
tryrdlock(t) ==
    /\ begin(t, "tryrdlock")
    /\ try_test(t, tryrdlock_test, "tryrdlock_then")

\* the `rdlock` of line 251
tryrdlock_then(t) ==
    /\ pc[t] = "tryrdlock_then"
    /\ rdlock_loop(t, "tryrdlock", FALSE)
    /\ UNCHANGED <<call, entry, notrw>>

\* RWLock#trywrlock, called through canwlock (lines 119-122, 260-270)
trywrlock(t) ==
    /\ begin(t, "trywrlock")
    /\ try_test(t, trywrlock_test, "trywrlock_then")

\* the `wrlock` of line 263
trywrlock_then(t) ==
    /\ pc[t] = "trywrlock_then"
    /\ wrlock_loop(t, "trywrlock", FALSE)
    /\ UNCHANGED <<call, entry, notrw>>

\* Array#delete, what a remove! would do if Array had it
delete(a, x) == SelectSeq(a, LAMBDA y : y # x)

\* unlock ends by raising exception e, with @rdheld and @wrheld as given
unlock_raise(t, e, rh, wh) ==
    /\ result' = [result EXCEPT ![t] = e]
    /\ rdheld' = rh
    /\ wrheld' = wh
    /\ UNCHANGED <<rdqueue, wrqueue, stopped>>

\* Lines 283-289 of unlock, entered with @rdheld = rh.  Line 283 clears
\* @wrheld; line 284 then sends empty? to @rwqueue, which is nil, and the
\* NoMethodError ends the method: lines 285-289 (the shift of a waiter into
\* @wrheld and its wakeup) are never executed.
unlock_release(t, rh) ==
    /\ ~responds(rwqueue_class, "empty?")
    /\ unlock_raise(t, "NoMethodError", rh, Nil)

\* the test of line 279 with == for !=
unlock_notheld_inverted(t) == rwheld = t

\* The test of line 279
unlock_notheld(t) == rwheld # t

\* RWLock#unlock, called through rwunlock as runlock and as wunlock
\* (lines 124-127, 196-197, 272-292)
unlock(t) ==
    /\ begin(t, "unlock")
    /\ slept' = [slept EXCEPT ![t] = FALSE]
    /\ pc' = pc
    /\ IF include(rdheld, t)
       THEN IF ~responds("Array", "remove!")
            THEN unlock_raise(t, "NoMethodError", rdheld, wrheld)
            ELSE IF wrheld # Nil
                 THEN unlock_raise(t, "RuntimeError", delete(rdheld, t), wrheld)
                 ELSE unlock_release(t, delete(rdheld, t))
       ELSE IF unlock_notheld(t)
            THEN unlock_raise(t, "RuntimeError", rdheld, wrheld)
            ELSE unlock_release(t, rdheld)

\* Thread#wakeup sent to a stopped thread by the program that embeds the
\* library: Thread.stop (lines 225, 240) returns on any wakeup, which is why
\* both lock methods test their condition in a loop.
Thread_wakeup(t) ==
    /\ stopped[t]
    /\ stopped' = [stopped EXCEPT ![t] = FALSE]
    /\ UNCHANGED <<rdqueue, wrqueue, wrheld, rdheld, pc, call, result, entry, slept, notrw>>

----------------------------------------------------------------------------
\* Mutex: initmutex saves a `Mutex.new` (lines 66-70), the Mutex of the
\* thread.rb that ixp_rubyinit requires (line 28).  Its lock, like the rdlock
\* above, tests @locked in a loop under Thread.critical, pushing the caller on
\* @waiting and stopping it while the mutex is locked; its unlock clears
\* @locked, shifts the first thread off @waiting and wakes it.  The units are
\* the host's: a unit calls lock or canlock only while it does not hold the
\* mutex, and unlock only while it does.

\* One pass of Mutex#lock from the head of its loop
mlock_loop(t, sl) ==
    IF locked
    THEN /\ waiting' = push(waiting, t)
         /\ mslept' = [mslept EXCEPT ![t] = TRUE]
         /\ mstopped' = [mstopped EXCEPT ![t] = TRUE]
         /\ mpc' = [mpc EXCEPT ![t] = "mlock_stop"]
         /\ mresult' = [mresult EXCEPT ![t] = "none"]
         /\ UNCHANGED <<locked, mholds>>
    ELSE /\ locked' = TRUE
         /\ mslept' = [mslept EXCEPT ![t] = sl]
         /\ mholds' = mholds \cup {t}
         /\ mpc' = [mpc EXCEPT ![t] = "idle"]
         /\ mresult' = [mresult EXCEPT ![t] = "self"]
         /\ UNCHANGED <<waiting, mstopped>>

\* mlock (lines 77-80): Mutex#lock
mlock(t) ==
    /\ mpc[t] = "idle"
    /\ t \notin mholds
    /\ mcall' = [mcall EXCEPT ![t] = "lock"]
    /\ mlock_loop(t, FALSE)
    /\ UNCHANGED notmutex

\* A thread woken out of Mutex#lock's Thread.stop evaluates the loop again
mlock_resume(t) ==
    /\ mpc[t] = "mlock_stop"
    /\ ~mstopped[t]
    /\ mlock_loop(t, TRUE)
    /\ UNCHANGED <<mcall, notmutex>>

\* The message mcanlock sends to the Mutex (line 84)
mcanlock_message == "trylock"

\* mcanlock (lines 82-85): sends trylock to the Mutex.  Mutex names its
\* method try_lock, so the send raises NoMethodError; were the message
\* understood, the call would take the mutex if it is free and return
\* whether it did.
mcanlock(t) ==
    /\ mpc[t] = "idle"
    /\ t \notin mholds
    /\ mcall' = [mcall EXCEPT ![t] = "canlock"]
    /\ IF ~responds("Mutex", mcanlock_message)
       THEN /\ mresult' = [mresult EXCEPT ![t] = "NoMethodError"]
            /\ UNCHANGED <<locked, mholds>>
       ELSE /\ mresult' = [mresult EXCEPT ![t] = IF locked THEN "false" ELSE "true"]
            /\ locked' = TRUE
            /\ mholds' = IF locked THEN mholds ELSE mholds \cup {t}
    /\ mslept' = [mslept EXCEPT ![t] = FALSE]
    /\ UNCHANGED <<waiting, mpc, mstopped, notmutex>>

\* unlock that leaves the first waiter on @waiting and asleep
munlock_wake_nobody(w) == [woken |-> Nil, rest |-> w]

\* The waiter Mutex#unlock takes off @waiting to wake (nil if there is none)
\* and what it leaves on the queue
munlock_wake(w) ==
    IF w = <<>> THEN [woken |-> Nil, rest |-> w]
    ELSE [woken |-> Head(w), rest |-> Tail(w)]

\* munlock (lines 87-90): Mutex#unlock
munlock(t) ==
    /\ mpc[t] = "idle"
    /\ t \in mholds
    /\ mcall' = [mcall EXCEPT ![t] = "unlock"]
    /\ mresult' = [mresult EXCEPT ![t] = "self"]
    /\ mholds' = mholds \ {t}
    /\ IF ~locked
       THEN UNCHANGED <<locked, waiting, mstopped>>
       ELSE /\ locked' = FALSE
            /\ waiting' = munlock_wake(waiting).rest
            /\ mstopped' = [u \in MThreads |->
                               mstopped[u] /\ u # munlock_wake(waiting).woken]
    /\ UNCHANGED <<mpc, mslept, notmutex>>

MNext ==
    \/ \E t \in MThreads : mlock(t)
    \/ \E t \in MThreads : mlock_resume(t)
    \/ \E t \in MThreads : mcanlock(t)
    \/ \E t \in MThreads : munlock(t)

\* The scheduler is fair to a unit whose lock can succeed, and every holder
\* goes on to unlock.
MFair ==
    \A t \in MThreads :
        /\ WF_vars(munlock(t))
        /\ WF_vars(mlock_resume(t))
        /\ SF_vars(mlock_resume(t) /\ ~locked)

MutexSpec == Init /\ [][MNext]_vars /\ MFair

----------------------------------------------------------------------------
\* Rendez: initrendez saves a `ConditionVariable.new` (lines 130-134), the
\* ConditionVariable of thread.rb.  Its wait(mutex) runs, inside
\* mutex.exclusive_unlock and so in one critical region, the unlock of the
\* mutex, the push of the caller on @waiters and Thread.stop; when the caller
\* is woken it calls mutex.lock.  signal shifts one thread off @waiters and
\* runs it; broadcast copies and clears @waiters in a critical region and then
\* runs the copied threads one after the other, outside it.

\* wait that leaves the mutex locked while the caller sleeps
rsleep_keeps_mutex(t) ==
    /\ mpc[t] = "idle"
    /\ t \in mholds /\ locked
    /\ waiters' = push(waiters, t)
    /\ mstopped' = [mstopped EXCEPT ![t] = TRUE]
    /\ mpc' = [mpc EXCEPT ![t] = "rsleep_stop"]
    /\ mcall' = [mcall EXCEPT ![t] = "sleep"]
    /\ mresult' = [mresult EXCEPT ![t] = "none"]
    /\ mslept' = [mslept EXCEPT ![t] = TRUE]
    /\ UNCHANGED <<locked, waiting, mholds, pending, notsync>>

\* rsleep (lines 141-144): ConditionVariable#wait on r->mutex, which the
\* caller holds
rsleep(t) ==
    /\ mpc[t] = "idle"
    /\ t \in mholds /\ locked
    /\ locked' = FALSE
    /\ mholds' = mholds \ {t}
    /\ waiting' = munlock_wake(waiting).rest
    /\ waiters' = push(waiters, t)
    /\ mstopped' = [u \in MThreads |->
                       u = t \/ (mstopped[u] /\ u # munlock_wake(waiting).woken)]
    /\ mpc' = [mpc EXCEPT ![t] = "rsleep_stop"]
    /\ mcall' = [mcall EXCEPT ![t] = "sleep"]
    /\ mresult' = [mresult EXCEPT ![t] = "none"]
    /\ mslept' = [mslept EXCEPT ![t] = TRUE]
    /\ UNCHANGED <<pending, notsync>>

\* A thread woken out of wait's Thread.stop calls mutex.lock (the ensure)
rsleep_resume(t) ==
    /\ mpc[t] = "rsleep_stop"
    /\ ~mstopped[t]
    /\ mlock_loop(t, TRUE)
    /\ UNCHANGED <<mcall, rvars, notsync>>

\* signal that runs every waiter
signal_take_all(w) == [run |-> w, rest |-> <<>>]

\* The threads ConditionVariable#signal takes off @waiters to run, and what
\* it leaves there
signal_take(w) ==
    IF w = <<>> THEN [run |-> <<>>, rest |-> w]
    ELSE [run |-> <<Head(w)>>, rest |-> Tail(w)]

\* rwake (lines 146-150): ConditionVariable#signal, then return 0
rwake(t) ==
    /\ mpc[t] = "idle"
    /\ waiters' = signal_take(waiters).rest
    /\ mstopped' = [u \in MThreads |->
                       mstopped[u] /\ ~include(signal_take(waiters).run, u)]
    /\ mcall' = [mcall EXCEPT ![t] = "wake"]
    /\ mresult' = [mresult EXCEPT ![t] = "0"]
    /\ UNCHANGED <<locked, waiting, mholds, mpc, mslept, pending, notsync>>

\* broadcast that takes only the first waiter
broadcast_take_first(w) == signal_take(w)

\* The threads ConditionVariable#broadcast copies from @waiters to run, and
\* what it leaves there
broadcast_take(w) == [run |-> w, rest |-> <<>>]

\* rwakeall (lines 152-156): the critical region of
\* ConditionVariable#broadcast; with nobody to run it returns 0 at once
rwakeall(t) ==
    /\ mpc[t] = "idle"
    /\ pending' = [pending EXCEPT ![t] = broadcast_take(waiters).run]
    /\ waiters' = broadcast_take(waiters).rest
    /\ mcall' = [mcall EXCEPT ![t] = "wakeall"]
    /\ mpc' = [mpc EXCEPT ![t] = IF pending'[t] = <<>> THEN "idle" ELSE "wakeall_run"]
    /\ mresult' = [mresult EXCEPT ![t] = IF pending'[t] = <<>> THEN "0" ELSE "none"]
    /\ UNCHANGED <<locked, waiting, mholds, mstopped, mslept, notsync>>

\* One `t.run` of broadcast's loop; after the last one rwakeall returns 0
rwakeall_run(t) ==
    /\ mpc[t] = "wakeall_run"
    /\ pending[t] # <<>>
    /\ mstopped' = [mstopped EXCEPT ![Head(pending[t])] = FALSE]
    /\ pending' = [pending EXCEPT ![t] = Tail(pending[t])]
    /\ mpc' = [mpc EXCEPT ![t] = IF pending'[t] = <<>> THEN "idle" ELSE "wakeall_run"]
    /\ mresult' = [mresult EXCEPT ![t] = IF pending'[t] = <<>> THEN "0" ELSE "none"]
    /\ UNCHANGED <<locked, waiting, mholds, mcall, mslept, waiters, notsync>>

RNext ==
    \/ \E t \in MThreads : mlock(t)
    \/ \E t \in MThreads : mlock_resume(t)
    \/ \E t \in MThreads : mcanlock(t)
    \/ \E t \in MThreads : munlock(t)
    \/ \E t \in MThreads : rsleep(t)
    \/ \E t \in MThreads : rsleep_resume(t)
    \/ \E t \in MThreads : rwake(t)
    \/ \E t \in MThreads : rwakeall(t)
    \/ \E t \in MThreads : rwakeall_run(t)

RendezSpec == Init /\ [][RNext]_vars

----------------------------------------------------------------------------
\* Error buffer: a Ruby string kept in the calling thread's thread-local
\* _ixp_errbuf.  errbuf is C code that calls nothing that switches threads,
\* so a call is one step.  A string stays allocated while a live thread's
\* thread-local refers to it; the collector may free it, and the allocator
\* give its address out again, once its thread is dead.

\* errbuf that makes a new string on every call
errbuf_unset_always(t) == TRUE

\* The test of line 43: the thread-local is nil
errbuf_unset(t) == tls[t] = Nil

\* errbuf (lines 34-50)
errbuf(t) ==
    /\ alive[t]
    /\ IF errbuf_unset(t)
       THEN \E a \in Addrs \ heap :
               /\ heap' = heap \cup {a}
               /\ tls' = [tls EXCEPT ![t] = a]
       ELSE UNCHANGED <<heap, tls>>
    /\ got' = [got EXCEPT ![t] = tls'[t]]
    /\ first' = [first EXCEPT ![t] = IF calls[t] = 0 THEN tls'[t] ELSE first[t]]
    /\ calls' = [calls EXCEPT ![t] = IF calls[t] = 0 THEN 1 ELSE 2]
    /\ UNCHANGED <<alive, noterrbuf>>

\* A thread ends: its thread-locals go with it
thread_exit(t) ==
    /\ alive[t]
    /\ alive' = [alive EXCEPT ![t] = FALSE]
    /\ tls' = [tls EXCEPT ![t] = Nil]
    /\ UNCHANGED <<heap, got, first, calls, noterrbuf>>

\* A new thread starts, with no thread-local set
thread_start(t) ==
    /\ ~alive[t]
    /\ alive' = [alive EXCEPT ![t] = TRUE]
    /\ got' = [got EXCEPT ![t] = Nil]
    /\ first' = [first EXCEPT ![t] = Nil]
    /\ calls' = [calls EXCEPT ![t] = 0]
    /\ UNCHANGED <<tls, heap, noterrbuf>>

\* The collector frees the strings no live thread's thread-local refers to
gc ==
    /\ heap' = {a \in heap : \E t \in EThreads : alive[t] /\ tls[t] = a}
    /\ heap' # heap
    /\ UNCHANGED <<tls, alive, got, first, calls, noterrbuf>>

ENext ==
    \/ \E t \in EThreads : errbuf(t)
    \/ \E t \in EThreads : thread_exit(t)
    \/ \E t \in EThreads : thread_start(t)
    \/ gc

ErrbufSpec == Init /\ [][ENext]_vars

----------------------------------------------------------------------------
\* Yielding I/O on one descriptor, a pipe.  _read and _write are C code: the
\* only places another thread can run are inside rb_thread_wait_fd,
\* rb_thread_fd_writable and rb_thread_schedule.  With more than one thread
\* in the interpreter (always so here) rb_thread_wait_fd and
\* rb_thread_fd_writable stop the caller and enter the scheduler, whose
\* select makes the caller runnable once the descriptor is ready.  The host
\* has at most one read and one write outstanding on a descriptor (it calls
\* them under its per-connection read and write locks).  A syscall on a
\* descriptor that is not ready would not return: it blocks the process,
\* and with it every thread.

min(a, b) == IF a < b THEN a ELSE b

\* What select reports for the descriptor
fd_readable == pipe # <<>> \/ wclosed
fd_writable == Len(pipe) < PipeCap \/ wclosed

\* a wait that lets the caller through whether or not the descriptor is ready
wait_fd_ready_always == TRUE

\* rb_thread_wait_fd (line 163) returns once select reports the descriptor readable
wait_fd_ready == fd_readable

\* rb_thread_fd_writable (line 175) returns once select reports it writable
fd_writable_ready == fd_writable

\* a test that takes every failure for an interrupt
eintr_any_error(n, e) == n < 0

\* The test of lines 166 and 178
eintr(n, e) == n < 0 /\ e = "EINTR"

\* The outcomes read(fd, buf, size) can have on a readable descriptor
read_outcomes(size) ==
    {[n |-> -1, errno |-> e, data |-> <<>>, rest |-> pipe] : e \in {"EINTR", "EIO"}}
    \cup (IF pipe # <<>>
          THEN {[n |-> min(size, Len(pipe)), errno |-> "none",
                 data |-> SubSeq(pipe, 1, min(size, Len(pipe))),
                 rest |-> SubSeq(pipe, min(size, Len(pipe)) + 1, Len(pipe))]}
          ELSE {[n |-> 0, errno |-> "none", data |-> <<>>, rest |-> pipe]})

\* The outcomes write(fd, buf, size) can have on a writable descriptor
write_outcomes(buf) ==
    {[n |-> -1, errno |-> e, data |-> <<>>] : e \in {"EINTR", "EIO"}}
    \cup (IF wclosed
          THEN {[n |-> -1, errno |-> "EPIPE", data |-> <<>>]}
          ELSE {[n |-> min(Len(buf), PipeCap - Len(pipe)), errno |-> "none",
                 data |-> SubSeq(buf, 1, min(Len(buf), PipeCap - Len(pipe)))]})

\* Some thread is inside call c (_read or _write)
outstanding(c) == \E u \in IThreads : ipc[u] # "idle" /\ icall[u] = c

io_begin(t, c, size, ready, pcwait) ==
    /\ blocked = Nil
    /\ ipc[t] = "idle"
    /\ ~outstanding(c)
    /\ ipc' = [ipc EXCEPT ![t] = pcwait]
    /\ icall' = [icall EXCEPT ![t] = c]
    /\ isize' = [isize EXCEPT ![t] = size]
    /\ inotready' = [inotready EXCEPT ![t] = ~ready]
    /\ sysn' = [sysn EXCEPT ![t] = 0]
    /\ ierrno' = [ierrno EXCEPT ![t] = "none"]
    /\ ires' = [ires EXCEPT ![t] = 0]
    /\ nsys' = [nsys EXCEPT ![t] = 0]
    /\ nyield' = [nyield EXCEPT ![t] = 0]
    /\ UNCHANGED <<pipe, wclosed, blocked, written, readseq, notio>>

\* _read up to the suspension in rb_thread_wait_fd (lines 160-163)
_read(t) ==
    /\ ipc[t] = "idle"
    /\ \E size \in 1..MaxSize : io_begin(t, "read", size, fd_readable, "wait_fd")

\* _write up to the suspension in rb_thread_fd_writable (lines 172-175)
\* The host's buffer of size bytes: every byte written is a new value, so
\* that the order and the loss of bytes show
fresh(size) == [i \in 1..size |-> Len(written) + i]

_write(t) ==
    /\ ipc[t] = "idle"
    /\ \E size \in 1..MaxSize :
           /\ Len(written) + size <= MaxBytes
           /\ io_begin(t, "write", size, fd_writable, "fd_writable")

\* The syscall's result is in: yield once on EINTR, else return it
after_syscall(t, out, pcyield) ==
    /\ sysn' = [sysn EXCEPT ![t] = out.n]
    /\ ierrno' = [ierrno EXCEPT ![t] = out.errno]
    /\ nsys' = [nsys EXCEPT ![t] = nsys[t] + 1]
    /\ IF eintr(out.n, out.errno)
       THEN /\ ipc' = [ipc EXCEPT ![t] = pcyield]
            /\ nyield' = [nyield EXCEPT ![t] = nyield[t] + 1]
            /\ UNCHANGED ires
       ELSE /\ ipc' = [ipc EXCEPT ![t] = "idle"]
            /\ ires' = [ires EXCEPT ![t] = out.n]
            /\ UNCHANGED nyield

\* _read from the return of rb_thread_wait_fd (lines 163-168)
_read_syscall(t) ==
    /\ blocked = Nil
    /\ ipc[t] = "wait_fd"
    /\ wait_fd_ready
    /\ IF ~fd_readable
       THEN /\ blocked' = t
            /\ UNCHANGED <<pipe, ipc, sysn, ierrno, ires, nsys, nyield, readseq>>
       ELSE \E out \in read_outcomes(isize[t]) :
               /\ pipe' = out.rest
               /\ readseq' = readseq \o out.data
               /\ after_syscall(t, out, "read_schedule")
               /\ UNCHANGED blocked
    /\ UNCHANGED <<wclosed, icall, isize, inotready, written, notio>>

\* _write from the return of rb_thread_fd_writable (lines 175-180)
_write_syscall(t) ==
    /\ blocked = Nil
    /\ ipc[t] = "fd_writable"
    /\ fd_writable_ready
    /\ IF ~fd_writable
       THEN /\ blocked' = t
            /\ UNCHANGED <<pipe, ipc, sysn, ierrno, ires, nsys, nyield, written>>
       ELSE \E out \in write_outcomes(fresh(isize[t])) :
               /\ pipe' = pipe \o out.data
               /\ written' = written \o out.data
               /\ after_syscall(t, out, "write_schedule")
               /\ UNCHANGED blocked
    /\ UNCHANGED <<wclosed, icall, isize, inotready, readseq, notio>>

\* rb_thread_schedule returns and the call returns n (lines 167-168, 179-180)
schedule_return(t) ==
    /\ blocked = Nil
    /\ ipc[t] \in {"read_schedule", "write_schedule"}
    /\ ipc' = [ipc EXCEPT ![t] = "idle"]
    /\ ires' = [ires EXCEPT ![t] = sysn[t]]
    /\ UNCHANGED <<pipe, wclosed, blocked, icall, isize, inotready, sysn,
                   ierrno, nsys, nyield, written, readseq, notio>>

\* The write end of the pipe is closed
close_write ==
    /\ blocked = Nil
    /\ ~wclosed
    /\ \A t \in IThreads : ipc[t] \notin {"fd_writable", "write_schedule"}
    /\ wclosed' = TRUE
    /\ UNCHANGED <<pipe, blocked, ipc, icall, isize, inotready, sysn,
                   ierrno, ires, nsys, nyield, written, readseq, notio>>

INext ==
    \/ \E t \in IThreads : _read(t)
    \/ \E t \in IThreads : _read_syscall(t)
    \/ \E t \in IThreads : _write(t)
    \/ \E t \in IThreads : _write_syscall(t)
    \/ \E t \in IThreads : schedule_return(t)
    \/ close_write

IOSpec == Init /\ [][INext]_vars

----------------------------------------------------------------------------
\* The life of the handle.  initrwlock stores the new RWLock in rw->aux and
\* registers that address with the collector (save, lines 52-56); rwdestroy
\* only takes the address off the collector's list (unsave, lines 58-61):
\* rw->aux still points to the object.  The collector may then free the
\* object once no thread is inside one of its methods (a running method keeps
\* self on the thread's stack, which the collector scans).  The wrappers
\* rlock, wlock and rwunlock send their message to whatever rw->aux points
\* to; sent to a freed object the behaviour is undefined.

\* rb_gc_unregister_address: an address that is not on the list is not found
\* and nothing happens
unsave ==
    aux' = IF aux = "registered" THEN "unregistered" ELSE aux

\* rwdestroy (lines 99-102)
rwdestroy(t) ==
    /\ ~crashed
    /\ pc[t] = "idle"
    /\ destroys < MaxDestroys
    /\ destroys' = destroys + 1
    /\ unsave
    /\ UNCHANGED <<crashed, rwvars, notdestroy>>

\* The collector frees the unregistered object
collect ==
    /\ ~crashed
    /\ aux = "unregistered"
    /\ \A t \in Threads : pc[t] = "idle"
    /\ aux' = "collected"
    /\ UNCHANGED <<crashed, destroys, rwvars, notdestroy>>

\* rlock (lines 104-107)
rlock(t) == ~crashed /\ aux # "collected" /\ rdlock(t)
rlock_resume(t) == ~crashed /\ rdlock_resume(t)

\* wlock (lines 114-117)
wlock(t) == ~crashed /\ aux # "collected" /\ wrlock(t)
wlock_resume(t) == ~crashed /\ wrlock_resume(t)

\* rwunlock (lines 124-127)
rwunlock(t) == ~crashed /\ aux # "collected" /\ unlock(t)

\* rlock, wlock or rwunlock on a freed object: the process dies, or the
\* message goes to whatever object now has the address, which raises
\* NoMethodError or answers it without touching the lock
call_freed(t) ==
    /\ ~crashed
    /\ aux = "collected"
    /\ pc[t] = "idle"
    /\ \E c \in {"rdlock", "wrlock", "unlock"}, o \in {"crash", "NoMethodError", "self"} :
           /\ call' = [call EXCEPT ![t] = c]
           /\ crashed' = (o = "crash")
           /\ result' = [result EXCEPT ![t] = o]
    /\ UNCHANGED <<rdqueue, wrqueue, wrheld, rdheld, pc, stopped, entry, slept,
                   aux, destroys, notdestroy>>

\* Thread#wakeup in a process that is alive
wakeup(t) == ~crashed /\ Thread_wakeup(t)

DNext ==
    \/ \E t \in Threads : rwdestroy(t)
    \/ collect
    \/ \E t \in Threads : rlock(t)
    \/ \E t \in Threads : rlock_resume(t)
    \/ \E t \in Threads : wlock(t)
    \/ \E t \in Threads : wlock_resume(t)
    \/ \E t \in Threads : rwunlock(t)
    \/ \E t \in Threads : call_freed(t)
    \/ \E t \in Threads : wakeup(t)

DestroySpec == Init /\ [][DNext]_vars

Next ==
    \/ \E t \in Threads : rdlock(t)
    \/ \E t \in Threads : rdlock_resume(t)
    \/ \E t \in Threads : wrlock(t)
    \/ \E t \in Threads : wrlock_resume(t)
    \/ \E t \in Threads : tryrdlock(t)
    \/ \E t \in Threads : tryrdlock_then(t)
    \/ \E t \in Threads : trywrlock(t)
    \/ \E t \in Threads : trywrlock_then(t)
    \/ \E t \in Threads : unlock(t)
    \/ \E t \in Threads : Thread_wakeup(t)

Spec == Init /\ [][Next]_vars

----------------------------------------------------------------------------
\* Properties of the RWLock

\* Number of times x occurs in array a
count(a, x) == Cardinality({i \in 1..Len(a) : a[i] = x})

\* t holds the lock, as a reader or as the writer
holds(t) == wrheld = t \/ include(rdheld, t)

\* C1: in every reachable state the lock is not held in write mode while the
\* reader set is non-empty, and the write holder is one thread or nobody.
C1_MutualExclusion ==
    /\ wrheld \in Threads \cup {Nil}
    /\ wrheld # Nil => rdheld = <<>>
    /\ rdheld # <<>> => wrheld = Nil

\* a writer holds the lock while a reader is kept waiting, or a reader holds
\* it while a writer is kept waiting
C1_Witness ==
    \E t, u \in Threads :
        /\ t # u
        /\ \/ wrheld = t /\ pc[u] = "rdlock_stop" /\ include(rdqueue, u)
           \/ include(rdheld, t) /\ pc[u] = "wrlock_stop" /\ include(wrqueue, u)

\* C2: when the write holder calls unlock, the call raises no error and the
\* caller is no longer the write holder afterwards.
C2_WriteHolderUnlock ==
    [][\A t \in Threads :
          (unlock(t) /\ wrheld = t) =>
              (result'[t] \notin Errors /\ wrheld' # t)]_vars

\* C3: when a reader calls unlock and nobody holds the lock in write mode,
\* the call raises no error and the caller is removed from the reader set.
C3_ReaderUnlock ==
    [][\A t \in Threads :
          (unlock(t) /\ include(rdheld, t) /\ wrheld = Nil) =>
              (result'[t] \notin Errors /\ count(rdheld', t) < count(rdheld, t))]_vars

\* C4: when a thread that holds the lock in neither mode calls unlock, the
\* call raises an error and leaves the write holder, the reader set and both
\* wait queues as they were.
C4_UnlockNotHeld ==
    [][\A t \in Threads :
          (unlock(t) /\ ~holds(t)) =>
              (result'[t] \in Errors /\ UNCHANGED <<wrheld, rdheld, rdqueue, wrqueue>>)]_vars

\* a thread that holds nothing has called unlock on a lock another thread holds
C4_Witness ==
    \E t \in Threads :
        /\ call[t] = "unlock"
        /\ result[t] = "RuntimeError"
        /\ ~include(entry[t].rd, t) /\ entry[t].wr # t
        /\ (entry[t].wr # Nil \/ entry[t].rd # <<>>)

\* C5: a thread that holds the lock in write mode and calls wrlock again
\* returns at once, is neither queued nor stopped, and stays the write holder.
C5_WriteReentrance ==
    [][\A t \in Threads :
          (wrlock(t) /\ wrheld = t) =>
              /\ wrheld' = t
              /\ pc'[t] = "idle" /\ result'[t] = "self"
              /\ ~slept'[t] /\ ~stopped'[t]
              /\ wrqueue' = wrqueue]_vars

\* the write holder has called wrlock again and has it
C5_Witness ==
    \E t \in Threads :
        /\ call[t] = "wrlock" /\ entry[t].wr = t
        /\ result[t] = "self" /\ ~slept[t] /\ wrheld = t

\* C6: a call of rdlock stops the caller exactly when a different thread
\* holds the lock in write mode; the write holder itself is not stopped.
C6_ReadLockBlocksOnOtherWriter ==
    [][\A t \in Threads :
          rdlock(t) => (slept'[t] <=> wrheld \notin {Nil, t})]_vars

\* C7: after a release by a holder, if a writer is queued and no reader is
\* left, the first queued writer is taken off its queue, woken and made the
\* write holder and nobody else is woken; otherwise every queued reader is
\* woken, and no thread of the read queue is made the write holder.
C7_WakePolicy ==
    [][\A t \in Threads :
          (unlock(t) /\ holds(t)) =>
              IF wrqueue # <<>> /\ rdheld' = <<>>
              THEN /\ wrheld' = Head(wrqueue)
                   /\ wrqueue' = Tail(wrqueue)
                   /\ \A u \in Threads : stopped'[u] = (stopped[u] /\ u # Head(wrqueue))
              ELSE /\ \A u \in Threads : include(rdqueue, u) => ~stopped'[u]
                   /\ ~include(rdqueue, wrheld')]_vars

\* C8: a call of rdlock or tryrdlock made while only other threads hold the
\* lock, all of them as readers, is granted without stopping the caller.
C8_SharedRead ==
    \A t \in Threads :
        ( /\ call[t] \in {"rdlock", "tryrdlock"}
          /\ entry[t].wr = Nil
          /\ entry[t].rd # <<>>
          /\ ~include(entry[t].rd, t) )
        => /\ ~slept[t]
           /\ pc[t] \in {"idle", "tryrdlock_then"}
           /\ pc[t] = "idle" => (include(rdheld, t) /\ result[t] \in {"self", "true"})

\* two different threads hold the lock as readers, the second one granted
\* while the first held it
C8_Witness ==
    \E t, u \in Threads :
        /\ t # u
        /\ call[t] \in {"rdlock", "tryrdlock"} /\ pc[t] = "idle"
        /\ entry[t].wr = Nil /\ include(entry[t].rd, u) /\ ~include(entry[t].rd, t)
        /\ include(rdheld, t) /\ include(rdheld, u)
        /\ ~slept[t]

----------------------------------------------------------------------------
\* Properties of the Mutex

\* C9: at most one thread holds the mutex in every reachable state; canlock
\* never stops the caller, and it returns true exactly when it made the
\* caller the holder (false otherwise).
C9_MutexExclusion ==
    /\ [](Cardinality(mholds) <= 1)
    /\ [][\A t \in MThreads :
             mcanlock(t) =>
                 /\ ~mstopped'[t] /\ mpc'[t] = "idle"
                 /\ mresult'[t] \in {"true", "false"}
                 /\ mresult'[t] = "true" <=> (t \notin mholds /\ t \in mholds')]_vars

\* The threads an unlock step wakes
woken_by_step == {u \in MThreads : mstopped[u] /\ ~mstopped'[u]}

----------------------------------------------------------------------------
\* Properties of the Rendez

\* t sleeps in wait and has not been woken
asleep(t) == mpc[t] = "rsleep_stop" /\ mstopped[t]

\* wait has returned to t
returned_from_wait(t) == mcall[t] = "sleep" /\ mpc[t] = "idle"

\* C11: wait releases the mutex in the step that puts the caller to sleep on
\* @waiters; a sleeping waiter is always where a signal or a broadcast in
\* progress finds it; and a caller wait has returned to holds the mutex.
C11_WaitReleasesAndReacquires ==
    /\ [][\A t \in MThreads :
             rsleep(t) =>
                 /\ t \notin mholds' /\ ~locked'
                 /\ asleep(t)' /\ include(waiters', t)]_vars
    /\ [](\A t \in MThreads :
             asleep(t) =>
                 \/ include(waiters, t)
                 \/ \E s \in MThreads : include(pending[s], t))
    /\ [](\A t \in MThreads : returned_from_wait(t) => t \in mholds)

\* one thread sleeps in wait while another one, which called lock, holds the
\* mutex
C11_Witness ==
    \E t, u \in MThreads :
        /\ t # u
        /\ asleep(t) /\ include(waiters, t)
        /\ mcall[u] = "lock" /\ u \in mholds /\ mpc[u] = "idle"

\* C12: signal returns 0; with nobody on @waiters it changes nothing; else
\* it wakes exactly one thread, the first of @waiters, and the others stay
\* asleep on @waiters.
C12_SignalWakesOne ==
    [][\A t \in MThreads :
          rwake(t) =>
              /\ mresult'[t] = "0" /\ mpc'[t] = "idle"
              /\ IF waiters = <<>>
                 THEN UNCHANGED <<waiters, pending, locked, waiting, mholds, mstopped, mpc>>
                 ELSE /\ woken_by_step = {Head(waiters)}
                      /\ waiters' = Tail(waiters)
                      /\ \A u \in MThreads :
                             include(waiters', u) => asleep(u)']_vars

\* a signal has woken one of two sleeping threads: one is awake, the other
\* still asleep on @waiters
C12_Witness ==
    \E s, t, u \in MThreads :
        /\ s # t /\ s # u /\ t # u
        /\ mcall[s] = "wake" /\ mresult[s] = "0"
        /\ mpc[t] = "rsleep_stop" /\ ~mstopped[t]
        /\ asleep(u) /\ include(waiters, u)

\* C13: broadcast takes every thread that is on @waiters when it is called
\* and leaves @waiters empty; it wakes only threads it took, and returns
\* only when it has woken them all; a thread wait has returned to holds the
\* mutex, which one thread holds at a time.
C13_BroadcastWakesAll ==
    /\ [][\A t \in MThreads :
             /\ rwakeall(t) =>
                    /\ waiters' = <<>>
                    /\ \A u \in MThreads : include(waiters, u) => include(pending'[t], u)
                    /\ \A u \in MThreads : include(pending'[t], u) => include(waiters, u)
             /\ rwakeall_run(t) =>
                    /\ woken_by_step = {Head(pending[t])}
                    /\ asleep(Head(pending[t]))]_vars
    /\ [](\A t \in MThreads :
             /\ (mpc[t] = "idle" => pending[t] = <<>>)
             /\ (mcall[t] = "wakeall" /\ mpc[t] = "idle" => mresult[t] = "0")
             /\ (returned_from_wait(t) => t \in mholds))
    /\ [](Cardinality(mholds) <= 1)

\* a broadcast has returned after waking two sleeping threads: one has left
\* wait with the mutex, the other is awake and has still to get it
C13_Witness ==
    \E s, t, u \in MThreads :
        /\ s # t /\ s # u /\ t # u
        /\ mcall[s] = "wakeall" /\ mpc[s] = "idle" /\ mresult[s] = "0"
        /\ returned_from_wait(t) /\ t \in mholds
        /\ mcall[u] = "sleep" /\ mpc[u] \in {"rsleep_stop", "mlock_stop"}
        /\ ~asleep(u) /\ waiters = <<>>

----------------------------------------------------------------------------
\* Properties of the error buffer

\* C14: two different live threads never have the same buffer, and every
\* call of a thread returns the buffer its first call returned, which is
\* still the allocated string its thread-local holds.
C14_ErrbufIdentity ==
    /\ \A t, u \in EThreads :
           (t # u /\ alive[t] /\ alive[u] /\ got[t] # Nil /\ got[u] # Nil)
               => got[t] # got[u]
    /\ \A t \in EThreads :
           (alive[t] /\ calls[t] > 0)
               => (got[t] # Nil /\ got[t] = first[t] /\ got[t] = tls[t] /\ got[t] \in heap)

\* two live threads have their buffers, one of them after a second call,
\* while a dead thread's buffer has been freed
C14_Witness ==
    \E t, u \in EThreads :
        /\ t # u /\ alive[t] /\ alive[u]
        /\ calls[t] = 2 /\ calls[u] = 1
        /\ got[t] # got[u]
        /\ Cardinality(heap) = 2

----------------------------------------------------------------------------
\* Properties of the yielding I/O

returned(t, c) == ipc[t] = "idle" /\ icall[t] = c

\* C15: a read or write on a descriptor that is not ready suspends only the
\* caller: no syscall ever blocks the process, a waiting thread's syscall can
\* be issued only when the descriptor is ready, while a thread waits in a
\* read (write) an idle thread can start a write (read), a waiting reader
\* goes on once the pipe has bytes, and the bytes reads return are the
\* oldest bytes written.
C15_YieldingIO ==
    /\ blocked = Nil
    /\ \A t \in IThreads :
           /\ (ipc[t] = "wait_fd" /\ ENABLED _read_syscall(t)) => fd_readable
           /\ (ipc[t] = "fd_writable" /\ ENABLED _write_syscall(t)) => fd_writable
           /\ (ipc[t] = "wait_fd" /\ pipe # <<>>) => ENABLED _read_syscall(t)
           /\ (returned(t, "read") /\ ires[t] >= 0)
                  => (ires[t] <= isize[t] /\ ires[t] <= Len(readseq))
    /\ \A t, u \in IThreads :
           (t # u /\ ipc[t] = "wait_fd" /\ ipc[u] = "idle" /\ ~outstanding("write")
                  /\ Len(written) < MaxBytes)
               => ENABLED _write(u)
    /\ \A t, u \in IThreads :
           (t # u /\ ipc[t] = "fd_writable" /\ ipc[u] = "idle" /\ ~outstanding("read"))
               => ENABLED _read(u)
    /\ readseq \o pipe = written

\* thread t called read on the empty pipe, thread u then wrote, and t's read
\* has returned exactly the bytes u wrote
C15_Witness ==
    \E t, u \in IThreads :
        /\ t # u
        /\ returned(t, "read") /\ inotready[t] /\ ires[t] = 2
        /\ returned(u, "write") /\ ires[u] = 2
        /\ readseq = written /\ Len(written) = 2 /\ pipe = <<>>

\* C16: every call issues its syscall once and returns the syscall's result;
\* it yields to the scheduler once after the syscall when that failed with
\* EINTR, and not at all on any other outcome.
C16_EintrYieldsOnce ==
    \A t \in IThreads :
        /\ nsys[t] <= 1
        /\ (ipc[t] = "idle" /\ icall[t] # "none")
               => /\ nsys[t] = 1
                  /\ ires[t] = sysn[t]
                  /\ nyield[t] = IF sysn[t] < 0 /\ ierrno[t] = "EINTR" THEN 1 ELSE 0
        /\ (ipc[t] \in {"read_schedule", "write_schedule"})
               => (nsys[t] = 1 /\ nyield[t] = 1 /\ sysn[t] < 0 /\ ierrno[t] = "EINTR")

\* one call has returned -1 after EINTR and one yield, another has returned
\* -1 after a different error and no yield
C16_Witness ==
    \E t, u \in IThreads :
        /\ ipc[t] = "idle" /\ ires[t] = -1 /\ ierrno[t] = "EINTR" /\ nyield[t] = 1
        /\ ipc[u] = "idle" /\ ires[u] = -1 /\ ierrno[u] \in {"EIO", "EPIPE"} /\ nyield[u] = 0

----------------------------------------------------------------------------
\* Properties of the handle's life

fatal(t) == crashed \/ result[t] \in Errors

\* C17: once rwdestroy has been called, every rlock, wlock and rwunlock on the
\* handle ends in a fatal condition without a change of the lock's holders and
\* queues, and so does every further rwdestroy.
C17_UseAfterDestroyFatal ==
    [][\A t \in Threads :
          /\ (destroys > 0 /\ (rlock(t) \/ wlock(t) \/ rwunlock(t) \/ call_freed(t)))
                 => (fatal(t)' /\ UNCHANGED <<wrheld, rdheld, rdqueue, wrqueue>>)
          /\ (destroys > 0 /\ rwdestroy(t)) => crashed']_vars

----------------------------------------------------------------------------
\* Properties of the RWLock's queues

\* The place of thread t in queue q (0: not queued)
place(q, t) ==
    IF include(q, t) THEN CHOOSE i \in 1..Len(q) : q[i] = t /\ \A j \in 1..(i - 1) : q[j] # t
    ELSE 0

\* C18: a release that leaves no reader makes the earliest queued writer the
\* write holder and takes it off the queue; a release with no writer queued
\* wakes the earliest queued reader; and a woken waiter that stops again
\* keeps its place in its queue.
C18_FifoQueueing ==
    [][\A t \in Threads :
          /\ (unlock(t) /\ holds(t) /\ wrqueue # <<>> /\ delete(rdheld, t) = <<>>)
                 => (wrheld' = Head(wrqueue) /\ wrqueue' = Tail(wrqueue))
          /\ (unlock(t) /\ holds(t) /\ wrqueue = <<>> /\ rdqueue # <<>>)
                 => ~stopped'[Head(rdqueue)]
          /\ (wrlock_resume(t) /\ stopped'[t] /\ include(wrqueue, t))
                 => place(wrqueue', t) = place(wrqueue, t)
          /\ (rdlock_resume(t) /\ stopped'[t] /\ include(rdqueue, t))
                 => place(rdqueue', t) = place(rdqueue, t)]_vars

\* C19: trywrlock (tryrdlock) passes its test exactly when wrlock (rdlock) by
\* the same thread in the same state would be granted without stopping; a
\* call that returns false leaves holders and queues as they were; and no try
\* call ever stops its caller.
C19_TryAgreesWithBlocking ==
    /\ [][\A t \in Threads :
             /\ trywrlock(t) => ((result'[t] # "false") <=> ~wrlock_wait(t))
             /\ tryrdlock(t) => ((result'[t] # "false") <=> ~rdlock_wait(t))
             /\ ((trywrlock(t) \/ tryrdlock(t)) /\ result'[t] = "false")
                    => UNCHANGED <<wrheld, rdheld, rdqueue, wrqueue>>]_vars
    /\ [](\A t \in Threads : call[t] \in {"tryrdlock", "trywrlock"} => ~slept[t])

\* C20: no state has waiters queued while nobody holds the lock, and none has
\* a write holder that is itself stopped in one of the lock's queues.
C20_NoLostWakeup ==
    /\ (wrheld = Nil /\ rdheld = <<>>) => (rdqueue = <<>> /\ wrqueue = <<>>)
    /\ \A t \in Threads :
           wrheld = t => ~(pc[t] \in {"rdlock_stop", "wrlock_stop"}
                           /\ (include(rdqueue, t) \/ include(wrqueue, t)))

====
